---------------------------- MODULE Spec2Model ----------------------------
(***************************************************************************)
(* A model of the boid flocking simulation: BoidFlockers (src/src/model.py)*)
(* and the ModelRunner that drives it (src/src/ModelRunner.py).            *)
(*                                                                         *)
(* Numbers.  The program computes in 64-bit floats; the model computes on  *)
(* the integer lattice: a position is a pair of integers, a velocity a     *)
(* pair of integers, a mean is a rounded quotient.  Float rounding is not  *)
(* modelled.                                                               *)
(*                                                                         *)
(* Libraries.  RandomActivation and ContinuousSpace are mesa classes; they *)
(* are modelled by what the calls in model.py make them do (a torus space, *)
(* a shuffled activation of every scheduled agent, then time + 1).         *)
(* Boid (boid.py) is not among the sources; its step is modelled from the  *)
(* steering rule of the specification.                                     *)
(***************************************************************************)
EXTENDS Integers, Sequences, FiniteSets, TLC

VARIABLES
    cfg,        \* the keyword arguments of BoidFlockers.__init__
    running,    \* BoidFlockers.running
    schedule,   \* RandomActivation's agents, in the order they were added
    space,      \* ContinuousSpace: agent id -> position
    boids,      \* agent id -> [pos, velocity] (the Boid objects)
    time,       \* schedule.time
    pc,         \* the scheduler: "Idle" between ticks, "Activating" inside step()
    order,      \* the shuffled agent keys of the tick in progress
    idx,        \* the next index of order to activate
    text,       \* BoidFlockers.text: <<>> (None) until draw_initial, then <<the time shown>>
    rpc,        \* the position of the ModelRunner
    mode,       \* the run that was started: "none", "silent" or "headless"
    maxTimestep,\* params["global"]["max_timestep"]
    iter,       \* the loop index of run_silent / of FuncAnimation's frame iterator
    pbar,       \* the progress bar's count
    calls,      \* history: the number of model.step() calls made
    inits,      \* history: the number of draw_initial calls made
    drawn,      \* history: the time shown by each draw_succesive, in order
    tickStart,  \* history: the agents' state when the tick in progress began
    post,       \* history: the state each agent was left in by its activation
    activated,  \* history: agent id -> activations in the tick in progress / last tick
    initial,    \* history: the agents' state after make_agents
    runB,       \* a second run of the same seed and configuration (SpecPair)
    query       \* one neighbour query and its answer (SpecQuery)

vars == <<cfg, running, schedule, space, boids, time, pc, order, idx, text, rpc,
          mode, maxTimestep, iter, pbar, calls, inits, drawn, tickStart, post,
          activated, initial, runB, query>>

modelVars == <<cfg, running, schedule, space, boids, time, pc, order, idx>>
histVars == <<tickStart, post, activated, initial>>
runnerVars == <<text, rpc, mode, maxTimestep, iter, pbar, calls, inits, drawn>>

---------------------------------------------------------------------------
(* Bounds of the model. *)

\* The largest max_timestep a run is given.
MaxTimestep == 2

\* The largest radius of a neighbour query in SpecQuery.
MaxRadius == 3

---------------------------------------------------------------------------
(* Vectors on the lattice. *)

Abs(x) == IF x < 0 THEN -x ELSE x

Min(a, b) == IF a < b THEN a ELSE b

Sign(x) == IF x < 0 THEN -1 ELSE IF x > 0 THEN 1 ELSE 0

\* a / b rounded to the nearest integer, halves away from zero (b > 0).
RoundQuot(a, b) == Sign(a) * ((2 * Abs(a) + b) \div (2 * b))

VAdd(u, v) == <<u[1] + v[1], u[2] + v[2]>>

VSub(u, v) == <<u[1] - v[1], u[2] - v[2]>>

VScale(u, k) == <<u[1] * k, u[2] * k>>

VQuot(u, n) == <<RoundQuot(u[1], n), RoundQuot(u[2], n)>>

RECURSIVE VSum(_, _)
\* The sum of f[a] over a in S.
VSum(f, S) ==
    IF S = {} THEN <<0, 0>>
    ELSE LET a == CHOOSE x \in S : TRUE
         IN  VAdd(f[a], VSum(f, S \ {a}))

\* The largest r with r * r <= n.
ISqrt(n) == CHOOSE r \in 0..n : r * r <= n /\ (r + 1) * (r + 1) > n

\* v rescaled to length s; v is not the zero vector.
Normalize(v, s) ==
    LET len == ISqrt(v[1] * v[1] + v[2] * v[2])
    IN  <<RoundQuot(v[1] * s, len), RoundQuot(v[2] * s, len)>>

---------------------------------------------------------------------------
(* The space: ContinuousSpace(width, height, True). *)

\* ContinuousSpace(width, height, True): x_max is the first argument.
SpaceXMax(c) == c.width

\* ContinuousSpace(width, width, True).
SpaceYMaxAsWidth(c) == c.width

\* ContinuousSpace(width, height, True): y_max is the second argument.
SpaceYMax(c) == c.height

\* The third argument: the space is a torus.
TorusOff == FALSE

Torus == TRUE

\* torus_adj: a position taken into [0, width) x [0, height).
Wrap(p, w, h) == <<p[1] % w, p[2] % h>>

\* The distance along one axis: |a - b|, and on a torus the shorter way round.
AxisDelta(a, b, size) ==
    LET d == Abs(a - b)
    IN  IF Torus THEN Min(d, size - d) ELSE d

DistSq(p, q, w, h) ==
    LET dx == AxisDelta(p[1], q[1], w)
        dy == AxisDelta(p[2], q[2], h)
    IN  dx * dx + dy * dy

\* The signed displacement from a to b along one axis to b's nearest image.
NearestDelta(a, b, size) ==
    LET d == b - a
    IN  IF 2 * d > size THEN d - size
        ELSE IF 2 * d < -size THEN d + size
        ELSE d

NearestVec(p, q, w, h) == <<NearestDelta(p[1], q[1], w), NearestDelta(p[2], q[2], h)>>

\* neighborsWithin(center, radius, excludeId) over the positions pos.
NeighborsWithin(pos, center, radius, excludeId, w, h) ==
    {a \in DOMAIN pos :
        /\ a # excludeId
        /\ radius >= 0
        /\ DistSq(pos[a], center, w, h) <= radius * radius}

---------------------------------------------------------------------------
(* Boid.step: the steering rule. world is agent id -> [pos, velocity]. *)

\* The displacement taken as velocity * speed.
DisplacementScaled(vel, c) == VScale(vel, c.speed)

\* One time unit per tick: the position advances by the velocity.
Displacement(vel, c) == vel

BoidUpdate(a, world, c) ==
    LET w == SpaceXMax(c)
        h == SpaceYMax(c)
        me == world[a]
        positions == [b \in DOMAIN world |-> world[b].pos]
        nbrs == NeighborsWithin(positions, me.pos, c.vision, a, w, h)
        n == Cardinality(nbrs)
        close == {b \in nbrs : c.separation >= 0 /\
                      DistSq(world[b].pos, me.pos, w, h) <= c.separation * c.separation}
        toward == [b \in nbrs |-> NearestVec(me.pos, world[b].pos, w, h)]
        away == [b \in close |-> VScale(NearestVec(me.pos, world[b].pos, w, h), -1)]
        vels == [b \in nbrs |-> world[b].velocity]
        cohere == VScale(VQuot(VSum(toward, nbrs), n), c.cohere)
        separate == VScale(VSum(away, close), c.separate)
        match == VScale(VSub(VQuot(VSum(vels, nbrs), n), me.velocity), c.match)
        total == VAdd(VAdd(me.velocity, cohere), VAdd(separate, match))
        vel == IF nbrs = {} THEN me.velocity
               ELSE IF total = <<0, 0>> THEN me.velocity
               ELSE Normalize(total, c.speed)
    IN  [pos |-> Wrap(VAdd(me.pos, Displacement(vel, c)), w, h), velocity |-> vel]

---------------------------------------------------------------------------
(* BoidFlockers.__init__ and make_agents. *)

\* The configurations a run is started with.  The second has separation >
\* vision, the third negative radii; the fourth has one agent, the last three.
Configs ==
    { [population |-> 2, width |-> 4, height |-> 2, speed |-> 1, vision |-> 2,
       separation |-> 1, cohere |-> 1, separate |-> 1, match |-> 1],
      [population |-> 2, width |-> 4, height |-> 2, speed |-> 1, vision |-> 1,
       separation |-> 2, cohere |-> 1, separate |-> 1, match |-> 0],
      [population |-> 2, width |-> 4, height |-> 2, speed |-> 1, vision |-> -1,
       separation |-> -2, cohere |-> 1, separate |-> 0, match |-> 0],
      [population |-> 1, width |-> 4, height |-> 2, speed |-> 2, vision |-> 2,
       separation |-> 1, cohere |-> 1, separate |-> 1, match |-> 1],
      [population |-> 3, width |-> 2, height |-> 1, speed |-> 1, vision |-> 0,
       separation |-> 0, cohere |-> 1, separate |-> 0, match |-> 1] }

\* What the specification calls an invalid configuration.
InvalidConfig(c) ==
    \/ c.width <= 0
    \/ c.height <= 0
    \/ c.vision < 0
    \/ c.separation < 0
    \/ c.separation > c.vision

\* A constructor that validates its arguments.
RejectsInvalid(c) == InvalidConfig(c)

\* __init__ stores its arguments and builds the model: no argument is checked.
ConfigurationRejected(c) == FALSE

\* range(self.population) with an id used twice.
AgentIdsRepeated(n) == 0..(n - 2)

\* range(self.population): the unique_id of each Boid.
AgentIds(n) == 0..(n - 1)

\* random() * x_max, random() * y_max: a point of [0, x_max) x [0, y_max).
InitialPositions(c) == (0..(SpaceXMax(c) - 1)) \X (0..(SpaceYMax(c) - 1))

\* np.random.random(2) * 2 - 1: each component in [-1, 1); the lattice points
\* of that interval are -1 and 0.
InitialVelocities == (-1..0) \X (-1..0)

\* The agents make_agents creates from the positions ps and velocities vs
\* drawn; place_agent stores the position wrapped.
MakeAgents(c, ps, vs) ==
    [i \in AgentIds(c.population) |->
        [pos |-> Wrap(ps[i], SpaceXMax(c), SpaceYMax(c)), velocity |-> vs[i]]]

RECURSIVE SeqOf(_)
\* The ids of S in increasing order: the order of schedule.add.
SeqOf(S) ==
    IF S = {} THEN <<>>
    ELSE LET m == CHOOSE x \in S : \A y \in S : x <= y
         IN  <<m>> \o SeqOf(S \ {m})

Range(s) == {s[i] : i \in 1..Len(s)}

NoRunB == [boids |-> <<>>, time |-> 0]

NoQuery == [asked |-> FALSE]

Init ==
    /\ cfg \in Configs
    /\ running = ~ConfigurationRejected(cfg)
    /\ \E ps \in [0..(cfg.population - 1) -> InitialPositions(cfg)] :
       \E vs \in [0..(cfg.population - 1) -> InitialVelocities] :
           boids = IF running THEN MakeAgents(cfg, ps, vs) ELSE <<>>
    /\ space = [a \in DOMAIN boids |-> boids[a].pos]
    /\ schedule = SeqOf(DOMAIN boids)
    /\ time = 0
    /\ pc = "Idle"
    /\ order = <<>>
    /\ idx = 1
    /\ text = <<>>
    /\ rpc = IF running THEN "start" ELSE "raised"
    /\ mode = "none"
    /\ maxTimestep \in 0..MaxTimestep
    /\ iter = 0
    /\ pbar = 0
    /\ calls = 0
    /\ inits = 0
    /\ drawn = <<>>
    /\ tickStart = boids
    /\ post = boids
    /\ activated = [a \in DOMAIN boids |-> 0]
    /\ initial = boids
    /\ runB = NoRunB
    /\ query = NoQuery

---------------------------------------------------------------------------
(* BoidFlockers.step: schedule.step(). *)

\* A draw of agent keys with repetition.
ShufflesWithRepetition(s) == [1..Len(s) -> Range(s)]

\* random.shuffle(agent_keys): the orders a tick may activate the agents in.
Shuffles(s) == {[i \in 1..Len(s) |-> s[p[i]]] : p \in Permutations(1..Len(s))}

\* The agents as they are now: the position the space holds, the velocity
\* the Boid holds.
World ==
    [a \in DOMAIN boids |-> [pos |-> space[a], velocity |-> boids[a].velocity]]

\* A barrier: every agent reads the state the tick began with.
ViewAtTickStart == tickStart

\* What an activated agent reads: the agents as they are now, those already
\* stepped in this tick included.
ActivationView == World

\* time incremented with every activation.
TimeAfterActivationPerAgent == time + 1

\* An activation leaves schedule.time alone.
TimeAfterActivation == time

\* schedule.step() begins: the agent keys are shuffled.
StepBegin ==
    /\ pc = "Idle"
    /\ order' \in Shuffles(schedule)
    /\ idx' = 1
    /\ pc' = "Activating"
    /\ calls' = calls + 1
    /\ tickStart' = World
    /\ activated' = [a \in DOMAIN boids |-> 0]
    /\ UNCHANGED <<cfg, running, schedule, space, boids, time, post, initial>>

\* agent.step() of the next agent in the shuffled order; move_agent stores
\* the new position in the space and in the agent.
Activate ==
    /\ pc = "Activating"
    /\ idx <= Len(order)
    /\ LET a == order[idx]
           new == BoidUpdate(a, ActivationView, cfg)
       IN  /\ boids' = [boids EXCEPT ![a] = new]
           /\ space' = [space EXCEPT ![a] = new.pos]
           /\ post' = [post EXCEPT ![a] = new]
           /\ activated' = [activated EXCEPT ![a] = @ + 1]
    /\ idx' = idx + 1
    /\ time' = TimeAfterActivation
    /\ UNCHANGED <<cfg, running, schedule, pc, order, tickStart, initial>>
    /\ UNCHANGED <<runnerVars, runB, query>>

\* Every agent has been stepped: time += 1 and step() returns to its caller.
StepEnd ==
    /\ pc = "Activating"
    /\ idx > Len(order)
    /\ time' = time + 1
    /\ pc' = "Idle"
    /\ rpc' = IF rpc = "silent_step" THEN "silent_loop" ELSE "update_draw"
    /\ iter' = IF rpc = "silent_step" THEN iter + 1 ELSE iter
    /\ UNCHANGED <<cfg, running, schedule, space, boids, order, idx>>
    /\ UNCHANGED <<text, mode, maxTimestep, pbar, calls, inits, drawn>>
    /\ UNCHANGED <<histVars, runB, query>>

---------------------------------------------------------------------------
(* ModelRunner. *)

\* run_silent is entered.
RunSilent ==
    /\ rpc = "start"
    /\ rpc' = "silent_loop"
    /\ mode' = "silent"
    /\ iter' = 0
    /\ UNCHANGED <<text, maxTimestep, pbar, calls, inits, drawn>>
    /\ UNCHANGED <<modelVars, histVars, runB, query>>

\* for step in range(max_timestep): self.model.step()
SilentStep ==
    /\ rpc = "silent_loop"
    /\ iter < maxTimestep
    /\ StepBegin
    /\ rpc' = "silent_step"
    /\ UNCHANGED <<text, mode, maxTimestep, iter, pbar, inits, drawn, runB, query>>

\* The loop of run_silent is over.
SilentEnd ==
    /\ rpc = "silent_loop"
    /\ iter >= maxTimestep
    /\ rpc' = "done"
    /\ UNCHANGED <<text, mode, maxTimestep, iter, pbar, calls, inits, drawn>>
    /\ UNCHANGED <<modelVars, histVars, runB, query>>

\* run_headless -> run: draw_initial, then the animation object is built.
RunHeadless ==
    /\ rpc = "start"
    /\ rpc' = "headless_loop"
    /\ mode' = "headless"
    /\ text' = <<time>>
    /\ inits' = inits + 1
    /\ iter' = 0
    /\ UNCHANGED <<maxTimestep, pbar, calls, drawn>>
    /\ UNCHANGED <<modelVars, histVars, runB, query>>

\* consume_iter_gen takes the next frame and calls update: self.model.step()
UpdateStep ==
    /\ rpc = "headless_loop"
    /\ iter < maxTimestep
    /\ StepBegin
    /\ rpc' = "update_step"
    /\ UNCHANGED <<text, mode, maxTimestep, iter, pbar, inits, drawn, runB, query>>

\* draw_succesive before model.step() has run.
DrawnTimeStale == time - 1

\* draw_succesive shows schedule.time.
DrawnTime == time

\* update goes on: self.model.draw_succesive(); pbar.update(1)
DrawSuccesive ==
    /\ rpc = "update_draw"
    /\ IF text = <<>>
       THEN /\ rpc' = "error"
            /\ UNCHANGED <<text, drawn, pbar, iter>>
       ELSE /\ text' = <<DrawnTime>>
            /\ drawn' = Append(drawn, DrawnTime)
            /\ pbar' = pbar + 1
            /\ iter' = iter + 1
            /\ rpc' = "headless_loop"
    /\ UNCHANGED <<mode, maxTimestep, calls, inits>>
    /\ UNCHANGED <<modelVars, histVars, runB, query>>

\* The frame iterator is exhausted: run logs the elapsed time and returns.
HeadlessEnd ==
    /\ rpc = "headless_loop"
    /\ iter >= maxTimestep
    /\ rpc' = "done"
    /\ UNCHANGED <<text, mode, maxTimestep, iter, pbar, calls, inits, drawn>>
    /\ UNCHANGED <<modelVars, histVars, runB, query>>

Next ==
    \/ RunSilent
    \/ SilentStep
    \/ SilentEnd
    \/ RunHeadless
    \/ UpdateStep
    \/ DrawSuccesive
    \/ HeadlessEnd
    \/ Activate
    \/ StepEnd

Spec == Init /\ [][Next]_vars

---------------------------------------------------------------------------
(* Two runs of one seed and one configuration, tick by tick.  self.random  *)
(* (positions, shuffles) is the model's generator: the two runs draw the   *)
(* same values from it.  np.random (velocities) is numpy's global          *)
(* generator, which the model's seed does not set: each run draws its own. *)

RECURSIVE RunOrder(_, _, _, _)
\* The agents after those of ord, from index i on, were stepped in turn.
RunOrder(world, ord, i, c) ==
    IF i > Len(ord) THEN world
    ELSE RunOrder([world EXCEPT ![ord[i]] = BoidUpdate(ord[i], world, c)], ord, i + 1, c)

PairInit ==
    /\ cfg \in {c \in Configs : c.population <= 2}
    /\ running = ~ConfigurationRejected(cfg)
    /\ \E ps \in [0..(cfg.population - 1) -> InitialPositions(cfg)] :
       \E vsA \in [0..(cfg.population - 1) -> InitialVelocities] :
       \E vsB \in [0..(cfg.population - 1) -> InitialVelocities] :
           /\ boids = MakeAgents(cfg, ps, vsA)
           /\ runB = [boids |-> MakeAgents(cfg, ps, vsB), time |-> 0]
    /\ space = [a \in DOMAIN boids |-> boids[a].pos]
    /\ schedule = SeqOf(DOMAIN boids)
    /\ time = 0
    /\ pc = "Idle"
    /\ order = <<>>
    /\ idx = 1
    /\ text = <<>>
    /\ rpc = "pair"
    /\ mode = "none"
    /\ maxTimestep = MaxTimestep
    /\ iter = 0
    /\ pbar = 0
    /\ calls = 0
    /\ inits = 0
    /\ drawn = <<>>
    /\ tickStart = boids
    /\ post = boids
    /\ activated = [a \in DOMAIN boids |-> 0]
    /\ initial = boids
    /\ query = NoQuery

\* One step() of each run, with the same shuffle.
PairStep ==
    /\ rpc = "pair"
    /\ time < maxTimestep
    /\ \E ord \in Shuffles(schedule) :
        /\ order' = ord
        /\ boids' = RunOrder(World, ord, 1, cfg)
        /\ runB' = [boids |-> RunOrder(runB.boids, ord, 1, cfg), time |-> runB.time + 1]
    /\ space' = [a \in DOMAIN boids |-> boids'[a].pos]
    /\ time' = time + 1
    /\ calls' = calls + 1
    /\ UNCHANGED <<cfg, running, schedule, pc, idx, histVars>>
    /\ UNCHANGED <<text, rpc, mode, maxTimestep, iter, pbar, inits, drawn, query>>

PairNext == PairStep

SpecPair == PairInit /\ [][PairNext]_vars

---------------------------------------------------------------------------
(* One neighbour query on a torus of QueryWidth x QueryHeight. *)

QueryWidth == 10

QueryHeight == 2

QueryPoints == (0..(QueryWidth - 1)) \X (0..(QueryHeight - 1))

QueryInit ==
    /\ \E ps \in [0..1 -> QueryPoints] :
       \E ctr \in QueryPoints :
       \E r \in 0..MaxRadius :
       \E ex \in -1..1 :
           query = [asked |-> FALSE, pos |-> ps, center |-> ctr, radius |-> r,
                    exclude |-> ex, result |-> {}]
    /\ cfg = [population |-> 2, width |-> QueryWidth, height |-> QueryHeight,
              speed |-> 1, vision |-> 0, separation |-> 0,
              cohere |-> 0, separate |-> 0, match |-> 0]
    /\ running = FALSE
    /\ boids = <<>>
    /\ space = query.pos
    /\ schedule = <<>>
    /\ time = 0
    /\ pc = "Idle"
    /\ order = <<>>
    /\ idx = 1
    /\ text = <<>>
    /\ rpc = "query"
    /\ mode = "none"
    /\ maxTimestep = 0
    /\ iter = 0
    /\ pbar = 0
    /\ calls = 0
    /\ inits = 0
    /\ drawn = <<>>
    /\ tickStart = <<>>
    /\ post = <<>>
    /\ activated = <<>>
    /\ initial = <<>>
    /\ runB = NoRunB

\* The query is answered.
Ask ==
    /\ rpc = "query"
    /\ ~query.asked
    /\ query' = [query EXCEPT
                   !.asked = TRUE,
                   !.result = NeighborsWithin(space, query.center, query.radius,
                                              query.exclude, SpaceXMax(cfg), SpaceYMax(cfg))]
    /\ UNCHANGED <<modelVars, histVars, runnerVars, runB>>

QueryNext == Ask

SpecQuery == QueryInit /\ [][QueryNext]_vars

---------------------------------------------------------------------------
(* The claims. *)

\* The agent an Activate step steps, and whether a step is one.
IsActivation == pc = "Activating" /\ idx <= Len(order) /\ idx' = idx + 1

SteppedBefore(b) == \E i \in 1..(idx - 1) : order[i] = b

InBounds(p) == 0 <= p[1] /\ p[1] < cfg.width /\ 0 <= p[2] /\ p[2] < cfg.height

\* C1: within one step() every scheduled agent is activated exactly once:
\* never twice while the tick runs, each of those already reached once, and
\* every one once when the step has returned.
ExactlyOncePerStep ==
    /\ \A a \in Range(schedule) : activated[a] <= 1
    /\ pc = "Activating" =>
          \A a \in Range(schedule) : activated[a] = IF SteppedBefore(a) THEN 1 ELSE 0
    /\ (pc = "Idle" /\ calls > 0) => \A a \in Range(schedule) : activated[a] = 1

\* C1 witness: a second step of three agents has returned, and its order was
\* not the order the agents were added in.
ExactlyOnceWitness ==
    /\ pc = "Idle"
    /\ calls = 2
    /\ cfg.population = 3
    /\ order # schedule
    /\ \A a \in Range(schedule) : activated[a] = 1

\* C2: in every state, between two activations included, every agent's
\* position (the space's and the Boid's own) lies in [0, width) x [0, height).
WrapInvariant ==
    \A a \in DOMAIN space : InBounds(space[a]) /\ InBounds(boids[a].pos)

\* C2 witness: mid-tick, the first agent of the order has been moved across
\* an edge of the space and the second has not been stepped yet.
WrapWitness ==
    /\ pc = "Activating"
    /\ idx = 2
    /\ Len(order) >= 2
    /\ ~InBounds(VAdd(tickStart[order[1]].pos, boids[order[1]].velocity))
    /\ InBounds(space[order[1]])

\* C4: an activated agent is updated from the state its activation left in
\* every agent stepped before it in this tick, and from the state the tick
\* began with for every agent that comes later (and for itself).
SequentialInPlace ==
    [][IsActivation =>
        LET a == order[idx]
            seen == [b \in DOMAIN boids |->
                        IF SteppedBefore(b) THEN post[b] ELSE tickStart[b]]
        IN  /\ boids'[a] = BoidUpdate(a, seen, cfg)
            /\ space'[a] = boids'[a].pos]_vars

\* C4 witness: the second agent of a tick has been stepped, and a barrier
\* (every agent updated from the state the tick began with) would have left
\* it in another state.
SequentialWitness ==
    /\ pc = "Activating"
    /\ idx = 3
    /\ activated[order[2]] = 1
    /\ post[order[1]] # tickStart[order[1]]
    /\ boids[order[2]] # BoidUpdate(order[2], tickStart, cfg)

\* C5: an agent with no neighbour within its vision keeps its velocity and
\* moves to position + velocity, wrapped; a population of one agent has, after
\* k activations, its initial velocity and the position initial + k * velocity,
\* wrapped.
StraightLine ==
    /\ [][(IsActivation /\
           NeighborsWithin(space, space[order[idx]], cfg.vision, order[idx],
                           cfg.width, cfg.height) = {}) =>
            LET a == order[idx]
            IN  /\ boids'[a].velocity = boids[a].velocity
                /\ boids'[a].pos =
                      <<(boids[a].pos[1] + boids[a].velocity[1]) % cfg.width,
                        (boids[a].pos[2] + boids[a].velocity[2]) % cfg.height>>]_vars
    /\ [](cfg.population = 1 =>
            LET k == IF pc = "Activating" /\ idx > 1 THEN time + 1 ELSE time
                v == initial[0].velocity
            IN  /\ boids[0].velocity = v
                /\ boids[0].pos = <<(initial[0].pos[1] + k * v[1]) % cfg.width,
                                    (initial[0].pos[2] + k * v[2]) % cfg.height>>)

\* C5 witness: a single moving agent has been stepped twice and has left the
\* space through its left edge on the way.
StraightLineWitness ==
    /\ cfg.population = 1
    /\ pc = "Idle"
    /\ time = 2
    /\ initial[0].velocity[1] = -1
    /\ initial[0].pos[1] < 2
    /\ boids[0].pos[1] = (initial[0].pos[1] - 2) % cfg.width

FixedPopulation ==
    /\ Len(schedule) = cfg.population
    /\ Range(schedule) = 0..(cfg.population - 1)
    /\ DOMAIN space = 0..(cfg.population - 1)
    /\ DOMAIN boids = 0..(cfg.population - 1)
    /\ \A i, j \in 1..Len(schedule) : schedule[i] = schedule[j] => i = j

\* C7 witness: two steps of three agents have returned and the agents are
\* not where they began.
FixedPopulationWitness ==
    /\ cfg.population = 3
    /\ pc = "Idle"
    /\ time = 2
    /\ boids # initial

\* C9: the tick counter is the number of step() calls that have returned: it
\* equals the calls made between ticks, stays one behind them while the
\* scheduler is activating, and an activating scheduler has either a
\* scheduled agent to step next or nothing left but to return to Idle.
TickCounter ==
    /\ pc \in {"Idle", "Activating"}
    /\ pc = "Idle" => time = calls
    /\ pc = "Activating" =>
          /\ time = calls - 1
          /\ idx \in 1..(Len(order) + 1)
          /\ idx <= Len(order) => order[idx] \in DOMAIN boids

\* C9 witness: mid-way through the second tick.
TickCounterWitness ==
    /\ pc = "Activating"
    /\ idx > 1
    /\ idx <= Len(order)
    /\ time = 1

\* C10: run_silent makes max_timestep step() calls and never draws;
\* run_headless makes one draw_initial before any step, then one
\* draw_succesive after each step, the k-th showing time k; neither makes more
\* than max_timestep calls, and draw_succesive never finds the figure unset.
RunnerSteps ==
    /\ rpc # "error"
    /\ calls <= maxTimestep
    /\ mode = "none" => (calls = 0 /\ inits = 0 /\ drawn = <<>>)
    /\ mode = "silent" =>
          /\ inits = 0
          /\ drawn = <<>>
          /\ rpc = "done" => (calls = maxTimestep /\ time = maxTimestep)
    /\ mode = "headless" =>
          /\ inits = 1
          /\ \A k \in 1..Len(drawn) : drawn[k] = k
          /\ Len(drawn) <= calls
          /\ calls <= Len(drawn) + 1
          /\ pbar = Len(drawn)
          /\ rpc = "done" => (calls = maxTimestep /\ Len(drawn) = maxTimestep)

\* C10 witness: a headless run of at least two frames is over.
RunnerStepsWitness ==
    /\ rpc = "done"
    /\ mode = "headless"
    /\ maxTimestep >= 2
    /\ Len(drawn) = maxTimestep

\* C3 as claimed: two runs of the same seed and configuration show the same
\* snapshot at every tick.
SameSeedSameSnapshots == runB.boids = World /\ runB.time = time

\* C8: the answer of a neighbour query is the set of agents, other than the
\* excluded one, of which one of the nine images (the point and its eight
\* translations by the width and the height) lies within the radius of the
\* centre; the excluded agent is never in it.
NeighborQueryExact ==
    query.asked =>
        /\ query.result =
              {a \in DOMAIN query.pos :
                  /\ a # query.exclude
                  /\ \E i, j \in -1..1 :
                        LET dx == query.pos[a][1] + i * QueryWidth - query.center[1]
                            dy == query.pos[a][2] + j * QueryHeight - query.center[2]
                        IN  dx * dx + dy * dy <= query.radius * query.radius}
        /\ query.exclude \notin query.result

\* C8 witness: agents at x = 1 and x = 9 of a space 10 wide, on one row; the
\* first asks with radius 2 and finds the second, across the edge.
NeighborQueryWitness ==
    /\ query.asked
    /\ QueryWidth = 10
    /\ query.pos[0][1] = 1
    /\ query.pos[1][1] = 9
    /\ query.pos[0][2] = query.pos[1][2]
    /\ query.center = query.pos[0]
    /\ query.exclude = 0
    /\ query.radius = 2
    /\ query.result = {1}

====
